---- MODULE Spec2Model ----
(***************************************************************************)
(* NMRPipe gdb/tab file reader (transcoders/nmrpipe/nmrpipe_lib.py).       *)
(*                                                                         *)
(* read_db_file_records is a single forward pass over the lines of a text  *)
(* stream.  The model reads one line per step; the locals of the function  *)
(* (records, column_names, column_formats, record_count, in_header) are    *)
(* the state, together with the outcome of the call (a returned DbFile or  *)
(* a raised BadNmrPipeFile).                                               *)
(*                                                                         *)
(* Text is modelled as it is: a str is a sequence of one-character         *)
(* strings, so that strip, split, find and the int/float constructors are  *)
(* computed from the characters.                                           *)
(***************************************************************************)
EXTENDS Integers, Sequences, FiniteSets, TLC

(***************************************************************************)
(* Bounds of the model.                                                    *)
(***************************************************************************)
\* the longest input file, in physical lines
MaxLines == 5

(***************************************************************************)
(* Characters and str primitives.                                          *)
(***************************************************************************)
Whitespace == {" ", "\n", "\t"}

Digits == {"0", "1", "2", "3", "4", "5", "6", "7", "8", "9"}

DigitValue(c) ==
    CASE c = "0" -> 0 [] c = "1" -> 1 [] c = "2" -> 2 [] c = "3" -> 3
      [] c = "4" -> 4 [] c = "5" -> 5 [] c = "6" -> 6 [] c = "7" -> 7
      [] c = "8" -> 8 [] c = "9" -> 9

\* str.lower() on the letters the float constructor looks at
Lower(c) ==
    CASE c = "I" -> "i" [] c = "N" -> "n" [] c = "F" -> "f" [] c = "T" -> "t"
      [] c = "Y" -> "y" [] c = "A" -> "a" [] c = "E" -> "e"
      [] OTHER -> c

LowerStr(s) == [i \in 1..Len(s) |-> Lower(s[i])]

\* s[from:] with a 1-based from
Drop(s, from) == SubSeq(s, from, Len(s))

RECURSIVE LStrip(_)
LStrip(s) ==
    IF s # <<>> /\ Head(s) \in Whitespace THEN LStrip(Tail(s)) ELSE s

RECURSIVE RStrip(_)
RStrip(s) ==
    IF s # <<>> /\ s[Len(s)] \in Whitespace
    THEN RStrip(SubSeq(s, 1, Len(s) - 1))
    ELSE s

\* str.strip()
Strip(s) == LStrip(RStrip(s))

\* str.split(): the maximal runs of non-whitespace characters, in order
RECURSIVE SplitAcc(_, _, _)
SplitAcc(s, done, cur) ==
    IF s = <<>>
    THEN IF cur = <<>> THEN done ELSE Append(done, cur)
    ELSE IF Head(s) \in Whitespace
         THEN SplitAcc(Tail(s), IF cur = <<>> THEN done ELSE Append(done, cur), <<>>)
         ELSE SplitAcc(Tail(s), done, Append(cur, Head(s)))

Split(s) == SplitAcc(s, <<>>, <<>>)

\* needle occurs in haystack at the 0-based offset at
OccursAt(haystack, needle, at) ==
    /\ at >= 0
    /\ at + Len(needle) <= Len(haystack)
    /\ \A k \in 1..Len(needle) : haystack[at + k] = needle[k]

\* str.find(needle, start): the lowest 0-based offset >= start, or -1
Find(haystack, needle, start) ==
    LET hits == {at \in start..(Len(haystack) - Len(needle)) :
                     OccursAt(haystack, needle, at)}
    IN  IF hits = {} THEN -1
        ELSE CHOOSE at \in hits : \A other \in hits : at <= other

RECURSIVE FindNthFrom(_, _, _, _)
FindNthFrom(haystack, needle, start, n) ==
    IF start >= 0 /\ n > 1
    THEN FindNthFrom(haystack, needle,
                     Find(haystack, needle, start + Len(needle)), n - 1)
    ELSE start

_find_nth(haystack, needle, n) ==
    FindNthFrom(haystack, needle, Find(haystack, needle, 0), n)

(***************************************************************************)
(* The column constructors int, float and str, applied to a raw field.     *)
(* A converted value is [kind, num, exp, text]: an int is num, a float is  *)
(* num * 10^exp with num free of trailing zeros (inf and nan are kept as   *)
(* text), a str is its text.                                               *)
(***************************************************************************)
Sign == {"+", "-"}

Unsigned(s) == IF s # <<>> /\ Head(s) \in Sign THEN Tail(s) ELSE s

Negative(s) == s # <<>> /\ Head(s) = "-"

\* digits, with single underscores allowed between digits
IsDigitPart(s) ==
    /\ s # <<>>
    /\ s[1] \in Digits
    /\ s[Len(s)] \in Digits
    /\ \A i \in 1..Len(s) : s[i] \in Digits \cup {"_"}
    /\ \A i \in 1..(Len(s) - 1) : ~(s[i] = "_" /\ s[i + 1] = "_")

RECURSIVE DigitPartValue(_, _)
DigitPartValue(s, acc) ==
    IF s = <<>> THEN acc
    ELSE IF Head(s) = "_" THEN DigitPartValue(Tail(s), acc)
         ELSE DigitPartValue(Tail(s), 10 * acc + DigitValue(Head(s)))

DigitCount(s) == Cardinality({i \in 1..Len(s) : s[i] \in Digits})

Positions(s, chars) == {i \in 1..Len(s) : s[i] \in chars}

FirstOf(S) == CHOOSE i \in S : \A j \in S : i <= j

IntValue(n) == [kind |-> "int", num |-> n, exp |-> 0, text |-> <<>>]

FloatValue(n, e) == [kind |-> "float", num |-> n, exp |-> e, text |-> <<>>]

SpecialFloat(name) == [kind |-> "float", num |-> 0, exp |-> 0, text |-> name]

StrValue(s) == [kind |-> "str", num |-> 0, exp |-> 0, text |-> s]

NoValue == [kind |-> "none", num |-> 0, exp |-> 0, text |-> <<>>]

Converted(v) == [ok |-> TRUE, value |-> v]

ValueError == [ok |-> FALSE, value |-> NoValue]

\* int(raw_field)
IntConstructor(raw_field) ==
    LET body == Unsigned(raw_field)
    IN  IF IsDigitPart(body)
        THEN Converted(IntValue(IF Negative(raw_field)
                                THEN 0 - DigitPartValue(body, 0)
                                ELSE DigitPartValue(body, 0)))
        ELSE ValueError

RECURSIVE Normalised(_, _)
Normalised(n, e) ==
    IF n = 0 THEN FloatValue(0, 0)
    ELSE IF n % 10 = 0 THEN Normalised(n \div 10, e + 1)
         ELSE FloatValue(n, e)

InfNan == { <<"i", "n", "f">>,
            <<"i", "n", "f", "i", "n", "i", "t", "y">>,
            <<"n", "a", "n">> }

\* float(raw_field)
FloatConstructor(raw_field) ==
    LET body     == Unsigned(raw_field)
        exps     == Positions(body, {"e", "E"})
        mantissa == IF exps = {} THEN body
                    ELSE SubSeq(body, 1, FirstOf(exps) - 1)
        exponent == IF exps = {} THEN <<>> ELSE Drop(body, FirstOf(exps) + 1)
        dots     == Positions(mantissa, {"."})
        whole    == IF dots = {} THEN mantissa
                    ELSE SubSeq(mantissa, 1, FirstOf(dots) - 1)
        fraction == IF dots = {} THEN <<>> ELSE Drop(mantissa, FirstOf(dots) + 1)
        mantissaOk ==
            /\ Cardinality(dots) <= 1
            /\ whole = <<>> \/ IsDigitPart(whole)
            /\ fraction = <<>> \/ IsDigitPart(fraction)
            /\ whole # <<>> \/ fraction # <<>>
        exponentOk == exps = {} \/ IsDigitPart(Unsigned(exponent))
        digits   == DigitPartValue(fraction, DigitPartValue(whole, 0))
        power    == (IF exps = {} THEN 0
                     ELSE IF Negative(exponent)
                          THEN 0 - DigitPartValue(Unsigned(exponent), 0)
                          ELSE DigitPartValue(Unsigned(exponent), 0))
                    - DigitCount(fraction)
    IN  IF LowerStr(body) \in InfNan
        THEN Converted(SpecialFloat(LowerStr(body)))
        ELSE IF mantissaOk /\ exponentOk
             THEN Converted(Normalised(IF Negative(raw_field) THEN 0 - digits
                                       ELSE digits, power))
             ELSE ValueError

\* str(raw_field)
StrConstructor(raw_field) == Converted(StrValue(raw_field))

\* constructor(raw_field), the constructor named as _constructor_to_name does
Construct(constructor, raw_field) ==
    CASE constructor = "int"   -> IntConstructor(raw_field)
      [] constructor = "float" -> FloatConstructor(raw_field)
      [] constructor = "str"   -> StrConstructor(raw_field)

(***************************************************************************)
(* Known field types, DbRecord, DbFile, LineInfo and the exceptions.       *)
(***************************************************************************)
DATA == <<"D", "A", "T", "A">>

REMARK == <<"R", "E", "M", "A", "R", "K">>

VALUES == <<"_", "_", "V", "A", "L", "U", "E", "S", "_", "_">>

FORMAT == <<"F", "O", "R", "M", "A", "T">>

VARS == <<"V", "A", "R", "S">>

COMMENT == <<"#">>

LineInfo(file_name, line_no, line) ==
    [file_name |-> file_name, line_no |-> line_no, line |-> line]

DbRecord(index, type, values, line_info) ==
    [index |-> index, type |-> type, values |-> values, line_info |-> line_info]

DbFile(name, recs) == [returned |-> TRUE, name |-> name, records |-> recs]

\* nothing has been returned to the caller
NoDbFile == [returned |-> FALSE, name |-> "", records |-> <<>>]

\* the subclasses of BadNmrPipeFile that read_db_file_records raises
BadNmrPipeFile ==
    {"BadFieldFormat", "WrongColumnCount", "NoVarsLine",
     "MultipleVars", "MultipleFormat", "DataBeforeFormat"}

\* a raised exception with what its message reports: the line number, the
\* 1-based column, the number of spaces before the caret and the number of
\* '*' placeholders (0 where the message has none)
Raise(kind, line_info, column, caret, stars) ==
    [kind |-> kind, line_no |-> line_info.line_no, line |-> line_info.line,
     column |-> column, caret |-> caret, stars |-> stars]

NoError ==
    [kind |-> "None", line_no |-> 0, line |-> <<>>,
     column |-> 0, caret |-> 0, stars |-> 0]

\* ' ' * n is empty for a negative n
Spaces(n) == IF n < 0 THEN 0 ELSE n

\* a local that is None, or holds a list
None == [none |-> TRUE, list |-> <<>>]

List(l) == [none |-> FALSE, list |-> l]

\* the truth value of a local in a condition: None and [] are false
Truthy(x) == ~x.none /\ x.list # <<>>

(***************************************************************************)
(* collections.Counter: a missing key reads as 0, del removes the key.     *)
(***************************************************************************)
Counter == <<>>

Count(counter, key) == IF key \in DOMAIN counter THEN counter[key] ELSE 0

Increment(counter, key) ==
    [k \in DOMAIN counter \cup {key} |->
        IF k = key THEN Count(counter, key) + 1 ELSE counter[k]]

Delete(counter, key) == [k \in DOMAIN counter \ {key} |-> counter[k]]

(***************************************************************************)
(* The helpers of read_db_file_records.  A helper that can raise yields    *)
(* [error, value]: error is NoError when it returns normally.              *)
(***************************************************************************)
Returns(v) == [error |-> NoError, value |-> v]

Raises(e) == [error |-> e, value |-> <<>>]

_raise_data_before_format(line_info) ==
    Raise("DataBeforeFormat", line_info, 0, 0, 0)

_raise_multiple(format_str, line_info) ==
    IF format_str = VARS THEN Raise("MultipleVars", line_info, 0, 0, 0)
    ELSE IF format_str = FORMAT THEN Raise("MultipleFormat", line_info, 0, 0, 0)
    ELSE NoError

\* the loop of _formats_to_constructors over formats[1:], from column_index
RECURSIVE FormatsLoop(_, _, _, _, _)
FormatsLoop(formats, line_info, column_index, field_counter, result) ==
    IF column_index >= Len(formats) - 1
    THEN Returns(result)
    ELSE LET whole_format == formats[column_index + 2]
             counted      == Increment(field_counter, whole_format)
             stripped     == Strip(whole_format)
             field_format == <<stripped[Len(stripped)]>>
         IN  IF field_format = <<"d">>
             THEN FormatsLoop(formats, line_info, column_index + 1, counted,
                              Append(result, "int"))
             ELSE IF field_format = <<"f">>
             THEN FormatsLoop(formats, line_info, column_index + 1, counted,
                              Append(result, "float"))
             ELSE IF field_format = <<"s">>
             THEN FormatsLoop(formats, line_info, column_index + 1, counted,
                              Append(result, "str"))
             ELSE IF field_format = <<"e">>
             THEN FormatsLoop(formats, line_info, column_index + 1, counted,
                              Append(result, "float"))
             ELSE LET format_column ==
                          _find_nth(line_info.line, field_format,
                                    Count(counted, field_format))
                  IN  Raises(Raise("BadFieldFormat", line_info, column_index + 1,
                                   Spaces(format_column), 0))

\* formats[0] is the FORMAT keyword: the loop enumerates formats[1:] from
\* column_index 0, and the message counts the columns from 1
_formats_to_constructors(formats, line_info) ==
    FormatsLoop(formats, line_info, 0, Counter, <<>>)

_check_var_and_format_count_raise_if_bad(column_names, column_formats, line_info) ==
    IF column_names.none
    THEN Raise("NoVarsLine", line_info, 0, 0, 0)
    ELSE LET num_formats      == Len(column_names.list)
             num_column_names == Len(column_formats.list)
         IN  IF num_formats # num_column_names
             THEN Raise("WrongColumnCount", line_info, 0, 0, 0)
             ELSE NoError

Abs(n) == IF n < 0 THEN 0 - n ELSE n

\* the placeholders counted without abs()
MissingFieldsSigned(num_fields, num_columns) == Spaces(num_fields - num_columns)

\* the '*' placeholders appended to the observed fields: ['*'] * n is empty
\* for a negative n
MissingFields(num_fields, num_columns) == Spaces(Abs(num_fields - num_columns))

_check_column_count_raise_if_bad(column_formats, column_names, line_info) ==
    LET raw_fields  == Split(line_info.line)
        num_fields  == Len(raw_fields)
        num_columns == Len(column_formats)
    IN  IF num_fields # num_columns
        THEN Raises(Raise("WrongColumnCount", line_info, 0, 0,
                          MissingFields(num_fields, num_columns)))
        ELSE Returns(column_formats)

Min(a, b) == IF a < b THEN a ELSE b

\* the loop of _build_values_or_raise over zip(fields, columns_formats)
RECURSIVE BuildLoop(_, _, _, _, _, _)
BuildLoop(columns_formats, fields, line_info, column_no, field_count, result) ==
    IF column_no >= Min(Len(fields), Len(columns_formats))
    THEN Returns(result)
    ELSE LET raw_field   == fields[column_no + 1]
             constructor == columns_formats[column_no + 1]
             counted     == Increment(field_count, raw_field)
             made        == Construct(constructor, raw_field)
         IN  IF made.ok
             THEN BuildLoop(columns_formats, fields, line_info, column_no + 1,
                            counted, Append(result, made.value))
             ELSE LET absolute_column ==
                          _find_nth(line_info.line, raw_field,
                                    Count(counted, raw_field))
                  IN  Raises(Raise("BadFieldFormat", line_info, column_no + 1,
                                   Spaces(absolute_column), 0))

_build_values_or_raise(column_formats, column_names, fields, line_info) ==
    LET checked == _check_column_count_raise_if_bad(column_formats, column_names,
                                                    line_info)
    IN  IF checked.error # NoError
        THEN checked
        ELSE BuildLoop(checked.value, fields, line_info, 0, Counter, <<>>)

(***************************************************************************)
(* The input: the text lines the file object can yield.  A line is built   *)
(* from its tokens, joined by single spaces and ended by a newline.        *)
(***************************************************************************)
RECURSIVE Join(_)
Join(tokens) ==
    IF tokens = <<>> THEN <<>>
    ELSE IF Len(tokens) = 1 THEN Head(tokens)
         ELSE Head(tokens) \o <<" ">> \o Join(Tail(tokens))

TextLine(tokens) == Join(tokens) \o <<"\n">>

InputLines ==
    { <<"\n">>,
      <<" ", " ", "\n">>,
      TextLine(<<VARS>>),
      TextLine(<<VARS, <<"A">>, <<"B">>, <<"C">> >>),
      TextLine(<<FORMAT>>),
      TextLine(<<FORMAT, <<"%", "s">>, <<"%", "d">>, <<"%", "4", ".", "1", "f">> >>),
      TextLine(<<FORMAT, <<"%", "d">> >>),
      TextLine(<<FORMAT, <<"%", "5", "z">> >>),
      TextLine(<<FORMAT, <<"%", "s">>, <<"%", "8", ".", "3", "F">> >>),
      TextLine(<<REMARK, <<"1">> >>),
      TextLine(<<COMMENT, <<"x">> >>),
      TextLine(<<DATA, <<"2">>, <<"7">> >>),
      TextLine(<<VALUES, <<"3">>, <<".", "5">> >>),
      TextLine(<<VALUES, <<"4">> >>),
      TextLine(<<<<"5">> >>),
      <<" ">> \o TextLine(<<<<"6">>, <<"-", "1", "2">>, <<"1", ".", "5", "0", "e", "1">> >>),
      TextLine(<<<<"7">>, <<"x">>, <<"x">> >>),
      TextLine(<<<<"8", "x">>, <<"1">>, <<"x">> >>) }

(***************************************************************************)
(* The state: the locals of read_db_file_records and the call's outcome.   *)
(***************************************************************************)
VARIABLES
    file_h,          \* the lines the file object has yielded so far
    line_index,      \* the number of lines the loop has taken from file_h
    records,         \* the DbRecords appended so far
    column_names,    \* None, or the names of the VARS line
    column_formats,  \* None, or the constructors of the FORMAT line
    record_count,    \* Counter of the leading tokens
    in_header,       \* no FORMAT line has been accepted yet
    pc,              \* "reading", "returned" or "raised"
    raised,          \* the exception that ended the call, or NoError
    result,          \* the DbFile returned to the caller, or NoDbFile
    call,            \* the extractor function that was called, with its arguments
    outcome          \* what that call returned or raised

vars == <<file_h, line_index, records, column_names, column_formats, record_count,
          in_header, pc, raised, result, call, outcome>>

file_name == "unknown"

\* no extractor function has been called
NoCall == [fn |-> "None"]

NoOutcome == [error |-> "None", value |-> <<>>]

Init ==
    /\ file_h = <<>>
    /\ line_index = 0
    /\ records = <<>>
    /\ column_names = None
    /\ column_formats = None
    /\ record_count = Counter
    /\ in_header = TRUE
    /\ pc = "reading"
    /\ raised = NoError
    /\ result = NoDbFile
    /\ call = NoCall
    /\ outcome = NoOutcome

\* what the loop derives from the line it has just taken
\* a LineInfo that carries the 0-based line_index
InfoOfZeroBased(line) == LineInfo(file_name, line_index, line)

InfoOf(line) == LineInfo(file_name, line_index + 1, line)

FieldsOf(line) == Split(Strip(Strip(line)))

TypeOf(line) == FieldsOf(line)[1]

\* record_count[record_type] += 1
Counted(line) == Increment(record_count, TypeOf(line))

\* fields[1:]
Rest(fields) == Tail(fields)

\* the loop takes the next line from file_h
Takes(line) ==
    /\ pc = "reading"
    /\ line_index < MaxLines
    /\ line \in InputLines
    /\ file_h' = Append(file_h, line)
    /\ line_index' = line_index + 1
    /\ UNCHANGED <<call, outcome>>

\* a line that passes the blank test and has been counted
Record(line) ==
    /\ Takes(line)
    /\ Len(Strip(line)) # 0

Continue == pc' = "reading" /\ raised' = NoError /\ result' = NoDbFile

\* an error that is kept while the loop goes on
FailAtEnd(error) == pc' = "reading" /\ raised' = error /\ result' = NoDbFile

Fail(error) == pc' = "raised" /\ raised' = error /\ result' = NoDbFile

\* a blank line is taken as the end of the header
BlankLineEndsHeader(line) ==
    /\ Takes(line)
    /\ Len(Strip(line)) = 0
    /\ Continue
    /\ in_header' = FALSE
    /\ UNCHANGED <<records, column_names, column_formats, record_count>>

\* if len(line) == 0: continue
BlankLine(line) ==
    /\ Takes(line)
    /\ Len(Strip(line)) = 0
    /\ Continue
    /\ UNCHANGED <<records, column_names, column_formats, record_count, in_header>>

\* a repeat check that only fires from the third line of a type on
RepeatedLate(counter, type) == Count(counter, type) > 2

\* record_count[record_type] != 1
Repeated(counter, type) == Count(counter, type) # 1

\* in_header, record_type == 'VARS': the names are taken and the record is
\* appended before the count is looked at
HeaderVars(line) ==
    /\ Record(line)
    /\ in_header
    /\ TypeOf(line) = VARS
    /\ record_count' = Counted(line)
    /\ column_names' = List(Rest(FieldsOf(line)))
    /\ records' = Append(records,
                         DbRecord(Count(Counted(line), VARS), VARS,
                                  Rest(FieldsOf(line)), InfoOf(line)))
    /\ IF Repeated(Counted(line), VARS)
       THEN Fail(_raise_multiple(VARS, InfoOf(line)))
       ELSE Continue
    /\ UNCHANGED <<column_formats, in_header>>

\* in_header, record_type == 'FORMAT': the codes are resolved, then the
\* column count is checked, then the record is appended and the header ends
HeaderFormat(line) ==
    /\ Record(line)
    /\ in_header
    /\ TypeOf(line) = FORMAT
    /\ record_count' = Counted(line)
    /\ LET resolved == _formats_to_constructors(FieldsOf(line), InfoOf(line))
           checked  == _check_var_and_format_count_raise_if_bad(
                           column_names, List(resolved.value), InfoOf(line))
       IN  IF resolved.error # NoError
           THEN /\ Fail(resolved.error)
                /\ UNCHANGED <<column_formats, records, in_header>>
           ELSE /\ column_formats' = List(resolved.value)
                /\ IF checked # NoError
                   THEN /\ Fail(checked)
                        /\ UNCHANGED <<records, in_header>>
                   ELSE /\ records' = Append(records,
                                DbRecord(Count(Counted(line), FORMAT), FORMAT,
                                         Rest(FieldsOf(line)), InfoOf(line)))
                        /\ in_header' = FALSE
                        /\ Continue
    /\ UNCHANGED column_names

\* in_header, record_type in ('REMARK', '#'): the values are the stripped line
HeaderRemark(line) ==
    /\ Record(line)
    /\ in_header
    /\ TypeOf(line) \in {REMARK, COMMENT}
    /\ record_count' = Counted(line)
    /\ records' = Append(records,
                         DbRecord(Count(Counted(line), TypeOf(line)), TypeOf(line),
                                  Strip(line), InfoOf(line)))
    /\ Continue
    /\ UNCHANGED <<column_names, column_formats, in_header>>

\* a DATA line that is stored but not marked as handled
HeaderDataNotHandled(line) ==
    /\ Record(line)
    /\ in_header
    /\ TypeOf(line) = DATA
    /\ record_count' = Counted(line)
    /\ records' = Append(records,
                         DbRecord(Count(Counted(line), DATA), DATA,
                                  Rest(FieldsOf(line)), InfoOf(line)))
    /\ Fail(_raise_data_before_format(InfoOf(line)))
    /\ UNCHANGED <<column_names, column_formats, in_header>>

\* in_header, record_type == DATA
HeaderData(line) ==
    /\ Record(line)
    /\ in_header
    /\ TypeOf(line) = DATA
    /\ record_count' = Counted(line)
    /\ records' = Append(records,
                         DbRecord(Count(Counted(line), DATA), DATA,
                                  Rest(FieldsOf(line)), InfoOf(line)))
    /\ Continue
    /\ UNCHANGED <<column_names, column_formats, in_header>>

\* in_header, not handled
HeaderNotHandledStores(line) ==
    /\ Record(line)
    /\ in_header
    /\ TypeOf(line) \notin {VARS, FORMAT, REMARK, COMMENT, DATA}
    /\ record_count' = Counted(line)
    /\ records' = Append(records,
                         DbRecord(Count(Counted(line), TypeOf(line)), TypeOf(line),
                                  Rest(FieldsOf(line)), InfoOf(line)))
    /\ Continue
    /\ UNCHANGED <<column_names, column_formats, in_header>>

HeaderNotHandled(line) ==
    /\ Record(line)
    /\ in_header
    /\ TypeOf(line) \notin {VARS, FORMAT, REMARK, COMMENT, DATA}
    /\ record_count' = Counted(line)
    /\ Fail(_raise_data_before_format(InfoOf(line)))
    /\ UNCHANGED <<records, column_names, column_formats, in_header>>

\* a data mode that lets a later VARS line declare the columns again
DataModeRedeclares(line) ==
    /\ Record(line)
    /\ ~in_header
    /\ TypeOf(line) \in {VARS, FORMAT}
    /\ record_count' = Counted(line)
    /\ IF TypeOf(line) = VARS
       THEN /\ column_names' = List(Rest(FieldsOf(line)))
            /\ Continue
       ELSE /\ Fail(_raise_multiple(TypeOf(line), InfoOf(line)))
            /\ UNCHANGED column_names
    /\ UNCHANGED <<records, column_formats, in_header>>

\* not in_header, record_type in (VARS, FORMAT)
DataModeMultiple(line) ==
    /\ Record(line)
    /\ ~in_header
    /\ TypeOf(line) \in {VARS, FORMAT}
    /\ record_count' = Counted(line)
    /\ Fail(_raise_multiple(TypeOf(line), InfoOf(line)))
    /\ UNCHANGED <<records, column_names, column_formats, in_header>>

\* not in_header, column_names and column_formats: the line is counted as a
\* '__VALUES__' record, the count of its own leading token is deleted and its
\* fields are converted
DataModeValues(line) ==
    /\ Record(line)
    /\ ~in_header
    /\ TypeOf(line) \notin {VARS, FORMAT}
    /\ Truthy(column_names) /\ Truthy(column_formats)
    /\ LET counted == Delete(Increment(Counted(line), VALUES), TypeOf(line))
           built   == _build_values_or_raise(column_formats.list, column_names.list,
                                             FieldsOf(line), InfoOf(line))
       IN  /\ record_count' = counted
           /\ IF built.error # NoError
              THEN /\ Fail(built.error)
                   /\ UNCHANGED records
              ELSE /\ records' = Append(records,
                                        DbRecord(Count(counted, VALUES), VALUES,
                                                 built.value, InfoOf(line)))
                   /\ Continue
    /\ UNCHANGED <<column_names, column_formats, in_header>>

\* not in_header, not handled: the record keeps the type of its leading token
DataModeNotHandled(line) ==
    /\ Record(line)
    /\ ~in_header
    /\ TypeOf(line) \notin {VARS, FORMAT}
    /\ ~(Truthy(column_names) /\ Truthy(column_formats))
    /\ record_count' = Counted(line)
    /\ records' = Append(records,
                         DbRecord(Count(Counted(line), TypeOf(line)), TypeOf(line),
                                  Rest(FieldsOf(line)), InfoOf(line)))
    /\ Continue
    /\ UNCHANGED <<column_names, column_formats, in_header>>

\* file_h is exhausted: return DbFile(file_name, records)
Return ==
    /\ pc = "reading"
    /\ pc' = "returned"
    /\ result' = DbFile(file_name, records)
    /\ UNCHANGED <<file_h, line_index, records, column_names, column_formats,
                   record_count, in_header, raised, call, outcome>>

Next ==
    \/ \E line \in InputLines : BlankLine(line)
    \/ \E line \in InputLines : HeaderVars(line)
    \/ \E line \in InputLines : HeaderFormat(line)
    \/ \E line \in InputLines : HeaderRemark(line)
    \/ \E line \in InputLines : HeaderData(line)
    \/ \E line \in InputLines : HeaderNotHandled(line)
    \/ \E line \in InputLines : DataModeMultiple(line)
    \/ \E line \in InputLines : DataModeValues(line)
    \/ \E line \in InputLines : DataModeNotHandled(line)
    \/ Return

Spec == Init /\ [][Next]_vars

(***************************************************************************)
(* What can be observed of a run: the lines read and the records built.    *)
(***************************************************************************)
LinesRead == Len(file_h)

LastLine == file_h[Len(file_h)]

NonBlank(line) == Len(Strip(line)) # 0

\* line i of the input is a non-blank line whose leading token is type
LineIs(i, type) == NonBlank(file_h[i]) /\ TypeOf(file_h[i]) = type

LinesOf(type) == {i \in 1..LinesRead : LineIs(i, type)}

\* no FORMAT line precedes line n: line n is read in header mode
HeaderModeAt(n) == \A i \in 1..(n - 1) : ~LineIs(i, FORMAT)

RecordsOf(recs, type) == {i \in 1..Len(recs) : recs[i].type = type}

SecondOf(S) == CHOOSE i \in S : Cardinality({j \in S : j < i}) = 1

\* this step takes one more line from file_h, a non-blank one led by type
ReadsLineOf(type) ==
    /\ Len(file_h') = Len(file_h) + 1
    /\ NonBlank(file_h'[Len(file_h')])
    /\ TypeOf(file_h'[Len(file_h')]) = type

(***************************************************************************)
(* C1: in every returned DbFile that contains a FORMAT record, the VARS    *)
(* record's values and the FORMAT record's values have the same length,    *)
(* and every __VALUES__ record's values has exactly that length.           *)
(***************************************************************************)
C1_ValuesMatchSchema ==
    result.returned =>
        \A f \in RecordsOf(result.records, FORMAT) :
            /\ \A v \in RecordsOf(result.records, VARS) :
                   Len(result.records[v].values) = Len(result.records[f].values)
            /\ \A r \in RecordsOf(result.records, VALUES) :
                   Len(result.records[r].values) = Len(result.records[f].values)

(***************************************************************************)
(* C2: a FORMAT line preceded only by blank, REMARK, # or DATA lines makes *)
(* the call fail with NoVarsLine, whatever format codes it carries.        *)
(***************************************************************************)
C2_FormatBeforeVarsIsNoVarsLine ==
    ( /\ LinesRead > 0
      /\ NonBlank(LastLine)
      /\ TypeOf(LastLine) = FORMAT
      /\ \A i \in 1..(LinesRead - 1) :
             ~NonBlank(file_h[i]) \/ TypeOf(file_h[i]) \in {REMARK, COMMENT, DATA} )
    => pc = "raised" /\ raised.kind = "NoVarsLine"

(***************************************************************************)
(* C3: once two VARS lines have been read, the call has failed at the      *)
(* second one with MultipleVars, in header mode and in data mode alike,    *)
(* whatever names the two lines list.                                      *)
(***************************************************************************)
C3_SecondVarsIsMultipleVars ==
    Cardinality(LinesOf(VARS)) >= 2 =>
        /\ pc = "raised"
        /\ raised.kind = "MultipleVars"
        /\ raised.line_no = SecondOf(LinesOf(VARS))
        /\ LinesRead = raised.line_no

\* the second VARS line comes after an accepted FORMAT line and lists the
\* same names as the first
C3_Witness ==
    /\ Cardinality(LinesOf(VARS)) = 2
    /\ ~HeaderModeAt(LinesRead)
    /\ \A i \in LinesOf(VARS) : file_h[i] = LastLine
    /\ raised.kind = "MultipleVars"

C5_DataBeforeFormatCitesRow ==
    ( /\ LinesRead > 0
      /\ NonBlank(LastLine)
      /\ HeaderModeAt(LinesRead)
      /\ TypeOf(LastLine) \notin {VARS, FORMAT, REMARK, COMMENT, DATA} )
    => /\ pc = "raised"
       /\ raised.kind = "DataBeforeFormat"
       /\ raised.line_no = LinesRead
       /\ raised.line = LastLine

\* the row comes after a VARS line and after a blank line, so that its line
\* number differs from the number of records
C5_Witness ==
    /\ raised.kind = "DataBeforeFormat"
    /\ ~column_names.none
    /\ \E i \in 1..(LinesRead - 1) : ~NonBlank(file_h[i])
    /\ raised.line_no = LinesRead
    /\ raised.line_no > Len(records) + 1

(***************************************************************************)
(* C6: once a FORMAT line has been accepted the parser stays in data mode  *)
(* and the column names and converters never change; a later VARS line     *)
(* fails with MultipleVars and a later FORMAT line with MultipleFormat.    *)
(***************************************************************************)
C6_SchemaLocked ==
    [][ ~in_header =>
           /\ ~in_header'
           /\ column_names' = column_names
           /\ column_formats' = column_formats
           /\ ReadsLineOf(VARS) => pc' = "raised" /\ raised'.kind = "MultipleVars"
           /\ ReadsLineOf(FORMAT) => pc' = "raised" /\ raised'.kind = "MultipleFormat"
      ]_vars

\* a second FORMAT line, read after a row has been stored in data mode
C6_Witness ==
    /\ ~in_header
    /\ RecordsOf(records, VALUES) # {}
    /\ raised.kind = "MultipleFormat"
    /\ Cardinality(LinesOf(FORMAT)) = 2

(***************************************************************************)
(* C7: in data mode a line whose leading token is REMARK, # or DATA is     *)
(* appended as a record of that type with its tokens unconverted, without  *)
(* a column-count or conversion check, and raises no error.                *)
(***************************************************************************)
C7_KeywordLinesRecordedVerbatim ==
    ( /\ LinesRead > 0
      /\ NonBlank(LastLine)
      /\ ~HeaderModeAt(LinesRead)
      /\ TypeOf(LastLine) \in {REMARK, COMMENT, DATA} )
    => /\ pc # "raised"
       /\ records # <<>>
       /\ records[Len(records)].line_info.line_no = LinesRead
       /\ records[Len(records)].type = TypeOf(LastLine)
       /\ records[Len(records)].values = Rest(FieldsOf(LastLine))

C9_IndexCountsPerType ==
    result.returned =>
        \A i \in 1..Len(result.records) :
            result.records[i].index =
                Cardinality({j \in 1..i :
                                result.records[j].type = result.records[i].type})

(***************************************************************************)
(* C10: a FORMAT line that follows a VARS line and whose number of format  *)
(* codes differs from the number of column names fails with                *)
(* WrongColumnCount; no FORMAT record is stored and the parser stays in    *)
(* header mode.                                                            *)
(***************************************************************************)
C10_FormatCountMismatch ==
    ( /\ LinesRead > 0
      /\ NonBlank(LastLine)
      /\ HeaderModeAt(LinesRead)
      /\ TypeOf(LastLine) = FORMAT
      /\ Cardinality(LinesOf(VARS)) = 1
      /\ Len(Rest(FieldsOf(LastLine))) # Len(column_names.list) )
    => /\ pc = "raised"
       /\ raised.kind = "WrongColumnCount"
       /\ RecordsOf(records, FORMAT) = {}
       /\ in_header

(***************************************************************************)
(* Where the tokens of a raw line start, counted as str offsets from 0.    *)
(***************************************************************************)
TokenStarts(line) ==
    {i \in 1..Len(line) :
        /\ line[i] \notin Whitespace
        /\ i = 1 \/ line[i - 1] \in Whitespace}

\* the offset of the first character of the k-th token of the line
TokenStart(line, k) ==
    (CHOOSE i \in TokenStarts(line) :
        Cardinality({j \in TokenStarts(line) : j < i}) = k - 1) - 1

LastChar(token) == token[Len(token)]

Least(S) == CHOOSE i \in S : \A j \in S : i <= j

\* the constructor a format code stands for
CodeType(code) ==
    CASE code = "d" -> "int" [] code = "f" -> "float"
      [] code = "e" -> "float" [] code = "s" -> "str"

BadCodes(codes) ==
    {k \in 1..Len(codes) : LastChar(codes[k]) \notin {"d", "f", "e", "s"}}

(***************************************************************************)
(* C11: each token of a FORMAT line is resolved by its last character: d,  *)
(* f, e and s give int, float, float and str; the first token that ends in *)
(* another character fails the parse with BadFieldFormat, and the caret    *)
(* stands under that token's code character in the raw line, also when the *)
(* same character occurs earlier on the line.                              *)
(***************************************************************************)
C11_FormatCodeCaret ==
    ( /\ LinesRead > 0
      /\ NonBlank(LastLine)
      /\ HeaderModeAt(LinesRead)
      /\ TypeOf(LastLine) = FORMAT )
    => LET codes == Rest(FieldsOf(LastLine))
           bad   == BadCodes(codes)
       IN  /\ bad = {} =>
                  column_formats.list =
                      [k \in 1..Len(codes) |-> CodeType(LastChar(codes[k]))]
           /\ bad # {} =>
                  /\ pc = "raised"
                  /\ raised.kind = "BadFieldFormat"
                  /\ raised.column = Least(bad)
                  /\ raised.caret = TokenStart(LastLine, Least(bad) + 1)
                                        + Len(codes[Least(bad)]) - 1

(***************************************************************************)
(* C15: in header mode a REMARK, # or DATA line is appended as a record of *)
(* its type and raises no error, before and after the VARS line; the       *)
(* parser stays in header mode and the column names and formats are        *)
(* unchanged.                                                              *)
(***************************************************************************)
C15_HeaderMetadataKeepsState ==
    [][ \A type \in {REMARK, COMMENT, DATA} :
           (in_header /\ ReadsLineOf(type)) =>
               /\ pc' = "reading"
               /\ raised' = NoError
               /\ in_header'
               /\ column_names' = column_names
               /\ column_formats' = column_formats
               /\ Len(records') = Len(records) + 1
               /\ SubSeq(records', 1, Len(records)) = records
               /\ records'[Len(records')].type = type
               /\ records'[Len(records')].line_info.line_no = Len(file_h')
      ]_vars

\* a DATA line stored after the VARS line and a REMARK line before it
C15_Witness ==
    /\ in_header
    /\ pc = "reading"
    /\ ~column_names.none
    /\ Len(records) = 3
    /\ records[1].type = REMARK
    /\ records[2].type = VARS
    /\ records[3].type = DATA

(***************************************************************************)
(* C16: in a row with the right number of fields the first field that its  *)
(* column's converter rejects fails the parse with BadFieldFormat, which   *)
(* reports the 1-based column of that field and puts the caret at the      *)
(* offset where that field's token starts in the raw line, also when the   *)
(* same text occurs earlier on the line inside another token.              *)
(***************************************************************************)
RejectedFields(constructors, fields) ==
    {k \in 1..Len(fields) : ~Construct(constructors[k], fields[k]).ok}

C16_FieldCaret ==
    ( /\ LinesRead > 0
      /\ NonBlank(LastLine)
      /\ ~HeaderModeAt(LinesRead)
      /\ TypeOf(LastLine) \notin {VARS, FORMAT}
      /\ Len(FieldsOf(LastLine)) = Len(column_formats.list)
      /\ RejectedFields(column_formats.list, FieldsOf(LastLine)) # {} )
    => LET first == Least(RejectedFields(column_formats.list, FieldsOf(LastLine)))
       IN  /\ pc = "raised"
           /\ raised.kind = "BadFieldFormat"
           /\ raised.column = first
           /\ raised.caret = TokenStart(LastLine, first)

(***************************************************************************)
(* The domain extractors and the assignment parser.  They are functions of *)
(* a DbFile; a call is modelled by one step that records the arguments in  *)
(* call and what the call returned or raised in outcome.                   *)
(***************************************************************************)
\* bounds of the inputs of the extractors
MaxAxes == 2

MaxRows == 2

\* a Python call returns a value or raises a built-in exception
PyReturns(v) == [error |-> "None", value |-> v]

PyRaises(exception) == [error |-> exception, value |-> <<>>]

\* an optional int and an optional str
NoInt == [none |-> TRUE, num |-> 0]

SomeInt(n) == [none |-> FALSE, num |-> n]

NoStr == [none |-> TRUE, text |-> <<>>]

SomeStr(s) == [none |-> FALSE, text |-> s]

\* str.split(sep) for a one-character sep
RECURSIVE SplitOnAcc(_, _, _, _)
SplitOnAcc(s, sep, done, cur) ==
    IF s = <<>> THEN Append(done, cur)
    ELSE IF Head(s) = sep
         THEN SplitOnAcc(Tail(s), sep, Append(done, cur), <<>>)
         ELSE SplitOnAcc(Tail(s), sep, done, Append(cur, Head(s)))

SplitOn(s, sep) == SplitOnAcc(s, sep, <<>>, <<>>)

\* str.endswith(suffix)
EndsWith(s, suffix) ==
    /\ Len(s) >= Len(suffix)
    /\ SubSeq(s, Len(s) - Len(suffix) + 1, Len(s)) = suffix

\* re.split(r'(\d+)', s): the text around the maximal digit runs, with the
\* digit runs themselves kept between them
RECURSIVE ReSplitDigitsAcc(_, _, _, _)
ReSplitDigitsAcc(s, done, cur, in_digits) ==
    IF s = <<>>
    THEN IF in_digits THEN Append(Append(done, cur), <<>>) ELSE Append(done, cur)
    ELSE IF (Head(s) \in Digits) = in_digits
         THEN ReSplitDigitsAcc(Tail(s), done, Append(cur, Head(s)), in_digits)
         ELSE ReSplitDigitsAcc(Tail(s), Append(done, cur), <<Head(s)>>, ~in_digits)

ReSplitDigits(s) == ReSplitDigitsAcc(s, <<>>, <<>>, FALSE)

\* the loop of _propagate_assignments, from the i-th assignment
RECURSIVE PropagateLoop(_, _, _, _)
PropagateLoop(assignments, i, current, done) ==
    IF i > Len(assignments) THEN done
    ELSE LET fields == ReSplitDigits(assignments[i])
         IN  IF Len(fields) = 3
             THEN PropagateLoop(assignments, i + 1, SubSeq(fields, 1, 2),
                                Append(done, fields))
             ELSE IF Len(fields) = 1
             THEN PropagateLoop(assignments, i + 1, current,
                                Append(done, current \o fields))
             ELSE PropagateLoop(assignments, i + 1, current,
                                Append(done, fields))

_propagate_assignments(assignments) == PropagateLoop(assignments, 1, <<>>, <<>>)

\* lib.sequence_lib is not part of the sources read here: the translation
\* table maps a one-letter residue code to its three-letter code
TRANSLATIONS_1_3 ==
    [letter \in {"A", "C", "G"} |->
        CASE letter = "A" -> <<"A", "L", "A">>
          [] letter = "C" -> <<"C", "Y", "S">>
          [] letter = "G" -> <<"G", "L", "Y">>]

\* translate_1_to_3(sequence, unknown=...): one code per letter, unknown
\* for a letter that the table lacks
translate_1_to_3(sequence, unknown) ==
    [i \in 1..Len(sequence) |->
        IF sequence[i] \in DOMAIN TRANSLATIONS_1_3
        THEN TRANSLATIONS_1_3[sequence[i]]
        ELSE unknown]

\* lib.util.is_int: int(text) succeeds
is_int(text) == IntConstructor(text).ok

\* the dataclasses of lib/structures.py: the generated __init__ raises
\* TypeError unless it gets one argument per field
SequenceResidue(args) ==
    IF Len(args) = 3
    THEN PyReturns([chain |-> args[1], sequence_code |-> args[2],
                    residue_name |-> args[3]])
    ELSE PyRaises("TypeError")

AtomLabel(args) ==
    IF Len(args) = 4
    THEN PyReturns([chain_code |-> args[1], sequence_code |-> args[2],
                    residue_name |-> args[3], atom_name |-> args[4]])
    ELSE PyRaises("TypeError")

\* one turn of the loop of _assignments_to_atom_labels
AssignmentLabel(assignment, chain_code) ==
    LET len_assignment == Len(assignment)
        translated == translate_1_to_3(assignment[1], <<".">>)
        residue_name ==
            IF len_assignment > 0 THEN SomeStr(translated[1]) ELSE NoStr
        sequence_code ==
            IF len_assignment > 1 /\ is_int(assignment[2])
            THEN SomeInt(IntConstructor(assignment[2]).value.num)
            ELSE NoInt
        atom_name ==
            IF len_assignment > 2 THEN SomeStr(assignment[3]) ELSE NoStr
        residue == SequenceResidue(<<chain_code, sequence_code, residue_name>>)
    IN  IF len_assignment > 0 /\ translated = <<>>
        THEN PyRaises("IndexError")
        ELSE IF residue.error # "None"
             THEN residue
             ELSE AtomLabel(<<residue.value, atom_name>>)

RECURSIVE LabelLoop(_, _, _, _)
LabelLoop(assignments, i, chain_code, done) ==
    IF i > Len(assignments) THEN PyReturns(done)
    ELSE LET label == AssignmentLabel(assignments[i], chain_code)
         IN  IF label.error # "None"
             THEN label
             ELSE LabelLoop(assignments, i + 1, chain_code,
                            Append(done, label.value))

\* for i in (len_result - dimensions): an int is not iterable
PadLabels(done, dimensions) ==
    IF Len(done) < dimensions
    THEN PyRaises("TypeError")
    ELSE PyReturns(done)

_assignments_to_atom_labels(assignments, dimensions, chain_code) ==
    LET labelled == LabelLoop(assignments, 1, chain_code, <<>>)
    IN  IF labelled.error # "None"
        THEN labelled
        ELSE PadLabels(labelled.value, dimensions)

\* bound of the number of assignment tokens of one peak
MaxTokens == 3

\* assignment tokens: with a residue, bare atom names, an atom name with a
\* digit after a residue, and the empty token of an unassigned peak
AssignmentTokens == {<<"A", "2", "C", "A">>, <<"C", "B">>, <<"A", "2", "H", "B", "2">>, <<"G", "3", "N">>, <<>>}

TokenLists ==
    UNION {[1..n -> AssignmentTokens] : n \in 0..MaxTokens}

CallPropagateAssignments ==
    /\ call = NoCall
    /\ \E assignments \in TokenLists :
        /\ call' = [fn |-> "_propagate_assignments", assignments |-> assignments]
        /\ outcome' = PyReturns(_propagate_assignments(assignments))
    /\ UNCHANGED <<file_h, line_index, records, column_names, column_formats,
                   record_count, in_header, pc, raised, result>>

\* lines 461-462 of read_peak_file, and the call with no assignment
CallAssignmentsToAtomLabels ==
    /\ call = NoCall
    /\ \E tokens \in TokenLists, dimensions \in 0..MaxAxes :
        LET assignments == _propagate_assignments(tokens)
        IN  /\ call' = [fn |-> "_assignments_to_atom_labels", tokens |-> tokens,
                        assignments |-> assignments, dimensions |-> dimensions]
            /\ outcome' = _assignments_to_atom_labels(assignments, dimensions, <<"A">>)
    /\ UNCHANGED <<file_h, line_index, records, column_names, column_formats,
                   record_count, in_header, pc, raised, result>>

(***************************************************************************)
(* The DbFile an extractor is given: what read_db_file_records returns for *)
(* a file of one VARS line, one FORMAT line and rows of fields.            *)
(***************************************************************************)
RowInfo(fields, line_no) == LineInfo(file_name, line_no, TextLine(fields))

\* the constructors that _formats_to_constructors resolves for known codes
Constructors(formats) ==
    [i \in 1..Len(formats) |-> CodeType(LastChar(formats[i]))]

\* the values that _build_values_or_raise builds of a row of as many fields
\* as there are columns, each of which converts
Values(constructors, fields) ==
    [i \in 1..Min(Len(fields), Len(constructors)) |->
        Construct(constructors[i], fields[i]).value]

\* the k-th row is line k + 2 and the k-th __VALUES__ record
ValueRecords(formats, rows) ==
    [k \in 1..Len(rows) |->
        DbRecord(k, VALUES, Values(Constructors(formats), rows[k]),
                 RowInfo(rows[k], k + 2))]

Document(names, formats, rows) ==
    DbFile(file_name,
           <<DbRecord(1, VARS, names, RowInfo(<<VARS>> \o names, 1)),
             DbRecord(1, FORMAT, formats, RowInfo(<<FORMAT>> \o formats, 2))>>
           \o ValueRecords(formats, rows))

\* select_records without a predicate
select_records(gdb, record_type) ==
    SelectSeq(gdb.records, LAMBDA record : record.type = record_type)

\* select_records(gdb_file, VARS)[0].values
get_gdb_columns(gdb_file) ==
    LET selected == select_records(gdb_file, VARS)
    IN  IF selected = <<>> THEN PyRaises("IndexError")
        ELSE PyReturns(selected[1].values)

_AXIS == <<"_", "A", "X", "I", "S">>

\* the loop of _get_axis_labels: var.split('_')[0] of the columns that end
\* with _AXIS
AxisLabelLoop(columns) ==
    LET axes == SelectSeq(columns, LAMBDA var : EndsWith(var, _AXIS))
    IN  [i \in 1..Len(axes) |-> SplitOn(axes[i], "_")[1]]

_get_axis_labels(gdb_file) ==
    LET columns == get_gdb_columns(gdb_file)
    IN  IF columns.error # "None" THEN columns
        ELSE PyReturns(AxisLabelLoop(columns.value))

_get_peak_list_dimension(gdb_file) ==
    LET labels == _get_axis_labels(gdb_file)
    IN  IF labels.error # "None" THEN labels
        ELSE PyReturns(Len(labels.value))

\* the columns of a peak file of the given number of axes
AxisLetters == <<<<"X">>, <<"Y">>, <<"Z">>, <<"A">>>>

RECURSIVE AxisColumns(_, _)
AxisColumns(i, axes) ==
    IF i > axes THEN <<>>
    ELSE <<AxisLetters[i] \o _AXIS, <<"D">> \o AxisLetters[i],
           AxisLetters[i] \o <<"_", "P", "P", "M">>, AxisLetters[i] \o <<"_", "H", "Z">>>>
         \o AxisColumns(i + 1, axes)

PeakColumns(axes) ==
    <<<<"I", "N", "D", "E", "X">>>> \o AxisColumns(1, axes)
    \o <<<<"H", "E", "I", "G", "H", "T">>, <<"D", "H", "E", "I", "G", "H", "T">>, <<"V", "O", "L">>, <<"T", "Y", "P", "E">>, <<"A", "S", "S">>>>

PeakFormats(axes) ==
    <<<<"%", "5", "d">>>> \o [i \in 1..(4 * axes) |-> <<"%", "9", ".", "3", "f">>]
    \o <<<<"%", "+", "e">>, <<"%", "+", "e">>, <<"%", "+", "e">>, <<"%", "2", "d">>, <<"%", "s">>>>

\* schemas for the axis labels: peak files, and names with more underscores
LabelSchemas ==
    {PeakColumns(axes) : axes \in 0..MaxAxes}
    \cup { <<<<"I", "N", "D", "E", "X">>, <<"H", "_", "N", "_", "A", "X", "I", "S">>, <<"X", "_", "A", "X", "I", "S">>>>,
           <<<<"X", "_", "A", "X", "I", "S">>, <<"A", "X", "I", "S">>, <<"_", "A", "X", "I", "S">>, <<"Y", "_", "A", "X", "I", "S", "S">>, <<"Y", "_", "A", "X", "I", "S">>>> }

CallGetAxisLabels ==
    /\ call = NoCall
    /\ \E gdb_file \in {Document(columns, [i \in 1..Len(columns) |-> <<"%", "s">>], <<>>) :
                           columns \in LabelSchemas}
                       \cup {DbFile(file_name, <<>>)} :
        LET dimension == _get_peak_list_dimension(gdb_file)
            labels    == _get_axis_labels(gdb_file)
        IN  /\ call' = [fn |-> "_get_axis_labels", gdb_file |-> gdb_file]
            /\ outcome' = IF labels.error # "None" THEN labels
                          ELSE PyReturns([num_axis |-> dimension.value,
                                          axis_labels |-> labels.value])
    /\ UNCHANGED <<file_h, line_index, records, column_names, column_formats,
                   record_count, in_header, pc, raised, result>>

\* column_indices[name] of get_column_indices: the position of the column,
\* the last one for a repeated name, KeyError for a name that is not a column
ColumnIndex(columns, name) ==
    LET places == {i \in 1..Len(columns) : columns[i] = name}
    IN  IF places = {} THEN PyRaises("KeyError")
        ELSE PyReturns((CHOOSE i \in places : \A j \in places : j <= i) - 1)

\* line.values[column_indices[name]]
ValueOf(line, columns, name) ==
    LET index == ColumnIndex(columns, name)
    IN  IF index.error # "None" THEN index
        ELSE IF index.value + 1 > Len(line.values) THEN PyRaises("IndexError")
             ELSE PyReturns(line.values[index.value + 1])

\* a function body goes on with the value of a call that returned; an
\* exception of the call ends it
Then(made, rest(_)) == IF made.error # "None" THEN made ELSE rest(made.value)

ShiftData(atom, shift) == [atom |-> atom, shift |-> shift, error |-> NoValue]

ShiftList(shifts) == [shifts |-> shifts]

\* one turn of the loop of read_shift_file
ShiftOfLine(line, columns, chain_code) ==
    Then(ValueOf(line, columns, <<"A", "T", "O", "M", "N", "A", "M", "E">>), LAMBDA atom_name :
    Then(ValueOf(line, columns, <<"R", "E", "S", "I", "D">>), LAMBDA residue_number :
    Then(ValueOf(line, columns, <<"R", "E", "S", "N", "A", "M", "E">>), LAMBDA residue_type :
    Then(ValueOf(line, columns, <<"S", "H", "I", "F", "T">>), LAMBDA shift :
    Then(SequenceResidue(<<chain_code, residue_number, residue_type>>),
         LAMBDA residue :
    Then(AtomLabel(<<residue, atom_name>>), LAMBDA atom :
    PyReturns(ShiftData(atom, shift))))))))

RECURSIVE ShiftLoop(_, _, _, _, _)
ShiftLoop(data, columns, chain_code, index, raw_shifts) ==
    IF index > Len(data) THEN PyReturns(ShiftList(raw_shifts))
    ELSE Then(ShiftOfLine(data[index], columns, chain_code), LAMBDA shift :
         ShiftLoop(data, columns, chain_code, index + 1,
                   Append(raw_shifts, shift)))

read_shift_file(gdb_file, chain_code) ==
    Then(get_gdb_columns(gdb_file), LAMBDA columns :
    ShiftLoop(select_records(gdb_file, VALUES), columns, chain_code, 1, <<>>))

\* shift files: the four columns in two orders, and a file without SHIFT
ShiftSchemas ==
    { [names   |-> <<<<"R", "E", "S", "I", "D">>, <<"R", "E", "S", "N", "A", "M", "E">>, <<"A", "T", "O", "M", "N", "A", "M", "E">>, <<"S", "H", "I", "F", "T">>>>,
       formats |-> <<<<"%", "5", "d">>, <<"%", "6", "s">>, <<"%", "6", "s">>, <<"%", "9", ".", "3", "f">>>>],
      [names   |-> <<<<"S", "H", "I", "F", "T">>, <<"A", "T", "O", "M", "N", "A", "M", "E">>, <<"R", "E", "S", "I", "D">>, <<"R", "E", "S", "N", "A", "M", "E">>>>,
       formats |-> <<<<"%", "9", ".", "3", "f">>, <<"%", "6", "s">>, <<"%", "5", "d">>, <<"%", "6", "s">>>>],
      [names   |-> <<<<"R", "E", "S", "I", "D">>, <<"R", "E", "S", "N", "A", "M", "E">>, <<"A", "T", "O", "M", "N", "A", "M", "E">>>>,
       formats |-> <<<<"%", "5", "d">>, <<"%", "6", "s">>, <<"%", "6", "s">>>>] }

ShiftRows ==
    { [RESID |-> <<"1">>, RESNAME |-> <<"A", "L", "A">>, ATOMNAME |-> <<"H">>,
       SHIFT |-> <<"8", ".", "2", "3", "4">>],
      [RESID |-> <<"2">>, RESNAME |-> <<"G", "L", "Y">>, ATOMNAME |-> <<"C", "A">>,
       SHIFT |-> <<"4", "5", ".", "1">>] }

ShiftField(row, name) ==
    CASE name = <<"R", "E", "S", "I", "D">>    -> row.RESID
      [] name = <<"R", "E", "S", "N", "A", "M", "E">>  -> row.RESNAME
      [] name = <<"A", "T", "O", "M", "N", "A", "M", "E">> -> row.ATOMNAME
      [] name = <<"S", "H", "I", "F", "T">>    -> row.SHIFT

\* sequences of at most MaxRows rows
RowLists(rows) == UNION {[1..n -> rows] : n \in 0..MaxRows}

CallReadShiftFile ==
    /\ call = NoCall
    /\ \E schema \in ShiftSchemas, rows \in RowLists(ShiftRows),
          chain_code \in {<<"A">>, <<"B">>} :
        LET fields == [k \in 1..Len(rows) |->
                          [i \in 1..Len(schema.names) |->
                              ShiftField(rows[k], schema.names[i])]]
            gdb_file == Document(schema.names, schema.formats, fields)
        IN  /\ call' = [fn |-> "read_shift_file", gdb_file |-> gdb_file,
                        columns |-> schema.names, rows |-> rows,
                        chain_code |-> chain_code]
            /\ outcome' = read_shift_file(gdb_file, chain_code)
    /\ UNCHANGED <<file_h, line_index, records, column_names, column_formats,
                   record_count, in_header, pc, raised, result>>

\* PEAK_TYPES.PEAK, an IntEnum: equal to the int 1 and to the float 1.0
PEAK == 1

IsNumber(v) == v.kind \in {"int", "float"}

IsZero(v) == IsNumber(v) /\ v.text = <<>> /\ v.num = 0

IsPeak(v) == IsNumber(v) /\ v.text = <<>> /\ v.num = PEAK /\ v.exp = 0

\* a / b of two values of a record: the quotient is kept as a term
Divide(a, b) ==
    IF ~IsNumber(a) \/ ~IsNumber(b) THEN PyRaises("TypeError")
    ELSE IF IsZero(b) THEN PyRaises("ZeroDivisionError")
    ELSE PyReturns([kind |-> "float", op |-> "/", left |-> a, right |-> b])

\* a * b where one side is a float: a str does not multiply with a float
Multiply(a, b) ==
    IF ~IsNumber(a) \/ ~IsNumber(b) THEN PyRaises("TypeError")
    ELSE PyReturns([kind |-> "float", op |-> "*", left |-> a, right |-> b])

\* sum(values) / len(values)
_mean(values) ==
    IF Len(values) = 0 THEN PyRaises("ZeroDivisionError")
    ELSE PyReturns([kind |-> "float", op |-> "mean", of |-> values])

\* the dataclasses of the peak list take their fields as keywords
PeakValuesFields == {"index", "volume", "intensity", "status", "comment"}

PeakValues(keywords) ==
    IF DOMAIN keywords = PeakValuesFields THEN PyReturns(keywords)
    ELSE PyRaises("TypeError")

PeakAxis(atom_labels, ppm, merit) ==
    [atom_labels |-> atom_labels, ppm |-> ppm, merit |-> merit]

PeakListData(num_axis, axis_labels, spectrometer_frequencies) ==
    [num_axis |-> num_axis, axis_labels |-> axis_labels, data_set |-> NoValue,
     sweep_widths |-> NoValue,
     spectrometer_frequencies |-> spectrometer_frequencies]

PeakList(peak_list_data, peaks) ==
    [peak_list_data |-> peak_list_data, peaks |-> peaks]

\* assignments[i] of a list
Item(list, i) ==
    IF i + 1 > Len(list) THEN PyRaises("IndexError") ELSE PyReturns(list[i + 1])

\* one turn of the loop over the dimensions, lines 478-494
AxisOfLine(line, columns, assignments, i) ==
    Then(ValueOf(line, columns, AxisLetters[i + 1] \o <<"_", "P", "P", "M">>), LAMBDA shift :
    Then(ValueOf(line, columns, <<"D">> \o AxisLetters[i + 1]), LAMBDA point_error :
    Then(ValueOf(line, columns, AxisLetters[i + 1] \o _AXIS), LAMBDA point :
    Then(Divide(point_error, point), LAMBDA ratio :
    Then(Multiply(ratio, shift), LAMBDA shift_error :
    Then(ValueOf(line, columns, AxisLetters[i + 1] \o <<"_", "H", "Z">>), LAMBDA pos_hz :
    Then(Item(assignments, i), LAMBDA atom_labels :
    Then(Divide(pos_hz, shift), LAMBDA sf :
    PyReturns([axis |-> PeakAxis(atom_labels, shift, 1), sf |-> sf])))))))))

RECURSIVE AxisLoop(_, _, _, _, _, _)
AxisLoop(line, columns, assignments, dimensions, i, peak) ==
    IF i >= Min(dimensions, Len(AxisLetters)) THEN PyReturns(peak)
    ELSE Then(AxisOfLine(line, columns, assignments, i), LAMBDA made :
         AxisLoop(line, columns, assignments, dimensions, i + 1,
                  [peak EXCEPT !.axes = Append(@, made.axis),
                               !.sf = Append(@, made.sf)]))

\* assignment.split('-') of a str, no such method of a number
SplitAssignment(assignment) ==
    IF assignment.kind # "str" THEN PyRaises("AttributeError")
    ELSE PyReturns(SplitOn(assignment.text, "-"))

\* lines 459-494: the row is not skipped
ProcessLine(line, index, columns, dimensions) ==
    Then(ValueOf(line, columns, <<"A", "S", "S">>), LAMBDA assignment :
    Then(SplitAssignment(assignment), LAMBDA tokens :
    Then(_assignments_to_atom_labels(_propagate_assignments(tokens),
                                     dimensions, <<"A">>), LAMBDA assignments :
    Then(ValueOf(line, columns, <<"H", "E", "I", "G", "H", "T">>), LAMBDA height :
    Then(ValueOf(line, columns, <<"D", "H", "E", "I", "G", "H", "T">>), LAMBDA height_error :
    Then(Divide(height_error, height), LAMBDA height_percentage_error :
    Then(ValueOf(line, columns, <<"V", "O", "L">>), LAMBDA volume :
    Then(Multiply(volume, height_percentage_error), LAMBDA volume_error :
    Then(PeakValues([serial |-> index, volume |-> volume, height |-> height,
                     deleted |-> FALSE, comment |-> <<>>]), LAMBDA peak_values :
    AxisLoop(line, columns, assignments, dimensions, 0,
             [values |-> <<peak_values>>, axes |-> <<>>, sf |-> <<>>]))))))))))

\* a row of a skipped peak: peak = {} stays in raw_peaks, with no 'values'
\* entry and no axis entries
Skipped == PyReturns([values |-> <<>>, axes |-> <<>>, sf |-> <<>>])

\* a failure in a row is caught and the row is left empty
PeakOfLineCatching(line, index, columns, dimensions, filter_noise) ==
    Then(ValueOf(line, columns, <<"T", "Y", "P", "E">>), LAMBDA peak_type :
    IF filter_noise /\ ~IsPeak(peak_type) THEN Skipped
    ELSE IF ProcessLine(line, index, columns, dimensions).error # "None"
         THEN Skipped
         ELSE ProcessLine(line, index, columns, dimensions))

\* one turn of the loop over the rows, lines 453-494
PeakOfLine(line, index, columns, dimensions, filter_noise) ==
    Then(ValueOf(line, columns, <<"T", "Y", "P", "E">>), LAMBDA peak_type :
    IF filter_noise /\ ~IsPeak(peak_type) THEN Skipped
    ELSE ProcessLine(line, index, columns, dimensions))

RECURSIVE PeakLoop(_, _, _, _, _, _, _)
PeakLoop(data, columns, dimensions, filter_noise, index, raw_peaks, frequencies) ==
    IF index > Len(data)
    THEN PyReturns([raw_peaks |-> raw_peaks,
                    spectrometer_frequencies |-> frequencies])
    ELSE Then(PeakOfLine(data[index], index, columns, dimensions, filter_noise),
              LAMBDA made :
         PeakLoop(data, columns, dimensions, filter_noise, index + 1,
                  Append(raw_peaks, [values |-> made.values, axes |-> made.axes]),
                  [i \in 1..dimensions |->
                      IF i <= Len(made.sf)
                      THEN Append(frequencies[i], made.sf[i])
                      ELSE frequencies[i]]))

\* [_mean(frequencies) for frequencies in spectrometer_frequencies]
Means(spectrometer_frequencies) ==
    IF \E i \in DOMAIN spectrometer_frequencies :
           _mean(spectrometer_frequencies[i]).error # "None"
    THEN PyRaises("ZeroDivisionError")
    ELSE PyReturns([i \in DOMAIN spectrometer_frequencies |->
                       _mean(spectrometer_frequencies[i]).value])

read_peak_file(gdb_file, filter_noise) ==
    Then(_get_peak_list_dimension(gdb_file), LAMBDA dimensions :
    Then(get_gdb_columns(gdb_file), LAMBDA columns :
    Then(_get_axis_labels(gdb_file), LAMBDA axis_labels :
    Then(PeakLoop(select_records(gdb_file, VALUES), columns, dimensions,
                  filter_noise, 1, <<>>, [i \in 1..dimensions |-> <<>>]),
         LAMBDA looped :
    Then(Means(looped.spectrometer_frequencies), LAMBDA means :
    PyReturns(PeakList(PeakListData(dimensions, axis_labels, means),
                       looped.raw_peaks)))))))

\* the decimal text of a row number
StrValueOfIndex(k) == <<CHOOSE d \in Digits : DigitValue(d) = k>>

\* rows of a peak file: an assigned peak, a peak of height zero, peaks with
\* a point value of zero on the first and on the second axis, noise, noise
\* of height zero and an unassigned peak
PeakRows ==
    { [zero_axis |-> 0, HEIGHT |-> <<"1", "0", "0", ".", "0">>, TYPE |-> <<"1">>, ASS |-> <<"A", "2", "C", "A", "-", "C", "B">>],
      [zero_axis |-> 0, HEIGHT |-> <<"0", ".", "0">>, TYPE |-> <<"1">>, ASS |-> <<"A", "2", "C", "A", "-", "C", "B">>],
      [zero_axis |-> 1, HEIGHT |-> <<"1", "0", "0", ".", "0">>, TYPE |-> <<"1">>, ASS |-> <<"A", "2", "C", "A", "-", "C", "B">>],
      [zero_axis |-> 2, HEIGHT |-> <<"1", "0", "0", ".", "0">>, TYPE |-> <<"1">>, ASS |-> <<"A", "2", "C", "A", "-", "C", "B">>],
      [zero_axis |-> 0, HEIGHT |-> <<"1", "0", "0", ".", "0">>, TYPE |-> <<"2">>, ASS |-> <<"A", "2", "C", "A", "-", "C", "B">>],
      [zero_axis |-> 0, HEIGHT |-> <<"0", ".", "0">>, TYPE |-> <<"2">>, ASS |-> <<"N", "o", "n", "e">>],
      [zero_axis |-> 0, HEIGHT |-> <<"1", "0", "0", ".", "0">>, TYPE |-> <<"1">>, ASS |-> <<"N", "o", "n", "e">>] }

RECURSIVE AxisFields(_, _, _)
AxisFields(row, i, axes) ==
    IF i > axes THEN <<>>
    ELSE <<(IF row.zero_axis = i THEN <<"0", ".", "0">> ELSE <<"1", "0", ".", "5">>),
           <<"0", ".", "5">>, <<"8", ".", "0">>, <<"4", "0", "0", "0", ".", "0">>>>
         \o AxisFields(row, i + 1, axes)

\* the fields of the k-th row in the order of PeakColumns
PeakFields(row, k, axes) ==
    <<StrValueOfIndex(k)>> \o AxisFields(row, 1, axes)
    \o <<row.HEIGHT, <<"5", ".", "0">>, <<"2", "0", "0", ".", "0">>, row.TYPE, row.ASS>>

CallReadPeakFile ==
    /\ call = NoCall
    /\ \E axes \in 0..MaxAxes, rows \in RowLists(PeakRows),
          filter_noise \in BOOLEAN :
        \E gdb_file \in {Document(PeakColumns(axes), PeakFormats(axes),
                                  [k \in 1..Len(rows) |->
                                      PeakFields(rows[k], k, axes)])} :
            /\ call' = [fn |-> "read_peak_file", gdb_file |-> gdb_file,
                        axes |-> axes, rows |-> rows,
                        filter_noise |-> filter_noise]
            /\ outcome' = read_peak_file(gdb_file, filter_noise)
    /\ UNCHANGED <<file_h, line_index, records, column_names, column_formats,
                   record_count, in_header, pc, raised, result>>

\* the calls are alternatives of one step from the state after construction
ExtractNext ==
    \/ CallPropagateAssignments
    \/ CallAssignmentsToAtomLabels
    \/ CallGetAxisLabels
    \/ CallReadShiftFile
    \/ CallReadPeakFile

ExtractSpec == Init /\ [][ExtractNext]_vars

\* observations of a call
Called(fn) == call.fn = fn

Returned == outcome.error = "None"

\* what a token says: a residue letter followed by a residue number
CarriesResidue(token) ==
    /\ Len(token) >= 2
    /\ token[1] \notin Digits
    /\ token[2] \in Digits

BareAtomName(token) ==
    /\ token # <<>>
    /\ \A i \in 1..Len(token) : token[i] \notin Digits

NumberEnd(token) ==
    Least({i \in 2..Len(token) : i = Len(token) \/ token[i + 1] \notin Digits})

ResidueLetter(token) == <<token[1]>>

ResidueNumber(token) == SubSeq(token, 2, NumberEnd(token))

Remainder(token) == SubSeq(token, NumberEnd(token) + 1, Len(token))

\* the nearest token before the i-th that carries a residue, 0 for none
Carrier(tokens, i) ==
    LET earlier == {j \in 1..(i - 1) : CarriesResidue(tokens[j])}
    IN  IF earlier = {} THEN 0 ELSE CHOOSE j \in earlier : \A k \in earlier : k <= j

\* C17: _propagate_assignments splits a token that begins with a residue
\* letter and a residue number into exactly [letter, number, remainder], also
\* when the remainder contains digits, and the bare atom names after it get
\* its letter and number.
C17_ThreePartsAndPropagation ==
    Called("_propagate_assignments") =>
        LET tokens == call.assignments
        IN  /\ Returned
            /\ Len(outcome.value) = Len(tokens)
            /\ \A i \in 1..Len(tokens) :
                /\ CarriesResidue(tokens[i]) =>
                     outcome.value[i] = <<ResidueLetter(tokens[i]),
                                          ResidueNumber(tokens[i]),
                                          Remainder(tokens[i])>>
                /\ (BareAtomName(tokens[i]) /\ Carrier(tokens, i) # 0) =>
                     outcome.value[i] = <<ResidueLetter(tokens[Carrier(tokens, i)]),
                                          ResidueNumber(tokens[Carrier(tokens, i)]),
                                          tokens[i]>>

\* the label (residue, number, atom) that a token stands for; the residue is
\* the letter of the token or its three-letter code
IsLabelOf(label, letter, number, atom) ==
    /\ label.residue_name \in {SomeStr(letter),
                               SomeStr(translate_1_to_3(letter, <<".">>)[1])}
    /\ label.sequence_code = SomeInt(IntConstructor(number).value.num)
    /\ label.atom_name = SomeStr(atom)

\* tokens that carry a residue and a digit-free atom name, or are bare atom
\* names after such a token
PlainTokens(tokens) ==
    \A i \in 1..Len(tokens) :
        \/ CarriesResidue(tokens[i]) /\ BareAtomName(Remainder(tokens[i]))
        \/ BareAtomName(tokens[i]) /\ Carrier(tokens, i) # 0

\* C12: a token with its own residue letter and number keeps them, a bare
\* atom name gets those of the nearest earlier token that carried them, so
\* that ['A2CA', 'CB'] gives the labels (A, 2, CA) and (A, 2, CB).
C12_LabelsInheritResidue ==
    ( /\ Called("_assignments_to_atom_labels")
      /\ PlainTokens(call.tokens)
      /\ Len(call.tokens) >= call.dimensions )
    => LET tokens == call.tokens
       IN  /\ Returned
           /\ Len(outcome.value) = Len(tokens)
           /\ \A i \in 1..Len(tokens) :
                LET from == IF CarriesResidue(tokens[i]) THEN i ELSE Carrier(tokens, i)
                    atom == IF CarriesResidue(tokens[i]) THEN Remainder(tokens[i])
                                                         ELSE tokens[i]
                IN  IsLabelOf(outcome.value[i], ResidueLetter(tokens[from]),
                              ResidueNumber(tokens[from]), atom)

\* C18: with fewer parsed assignments than dimensions the call does not
\* fail and returns exactly dimensions labels, the first ones built from the
\* assignments and the others empty.
C18_PadsToDimensions ==
    ( /\ Called("_assignments_to_atom_labels")
      /\ Len(call.assignments) < call.dimensions )
    => /\ Returned
       /\ Len(outcome.value) = call.dimensions
       /\ \A i \in (Len(call.assignments) + 1)..call.dimensions :
            /\ outcome.value[i].sequence_code = NoInt
            /\ outcome.value[i].atom_name = NoStr

\* the columns of the VARS record that are axes
AxisColumnsOf(gdb_file) ==
    SelectSeq(select_records(gdb_file, VARS)[1].values,
              LAMBDA column : EndsWith(column, _AXIS))

\* C19: num_axis is the number of VARS columns whose name ends in _AXIS and
\* axis_labels lists, in schema order, the whole prefix of each such name
\* before the trailing _AXIS.
C19_AxisLabelsArePrefixes ==
    ( /\ Called("_get_axis_labels")
      /\ select_records(call.gdb_file, VARS) # <<>> )
    => LET axes == AxisColumnsOf(call.gdb_file)
       IN  /\ Returned
           /\ outcome.value.num_axis = Len(axes)
           /\ outcome.value.axis_labels =
                [i \in 1..Len(axes) |-> SubSeq(axes[i], 1, Len(axes[i]) - Len(_AXIS))]

\* C13: read_shift_file returns one ShiftData per __VALUES__ record, in file
\* order, with the chain code of the caller, the RESID, RESNAME and ATOMNAME
\* of the row in the atom label, the SHIFT of the row and no error, for
\* every order of the four columns.
C13_OneShiftPerRow ==
    ( /\ Called("read_shift_file")
      /\ \A name \in {<<"R", "E", "S", "I", "D">>, <<"R", "E", "S", "N", "A", "M", "E">>, <<"A", "T", "O", "M", "N", "A", "M", "E">>, <<"S", "H", "I", "F", "T">>} :
            \E i \in 1..Len(call.columns) : call.columns[i] = name )
    => /\ Returned
       /\ Len(outcome.value.shifts) = Len(call.rows)
       /\ \A k \in 1..Len(call.rows) :
            outcome.value.shifts[k] =
                [atom  |-> [chain_code    |-> call.chain_code,
                            sequence_code |-> IntConstructor(call.rows[k].RESID).value,
                            residue_name  |-> StrValue(call.rows[k].RESNAME),
                            atom_name     |-> StrValue(call.rows[k].ATOMNAME)],
                 shift |-> FloatConstructor(call.rows[k].SHIFT).value,
                 error |-> NoValue]

\* C14: every peak of a returned PeakList has exactly num_axis PeakAxis
\* entries and exactly one PeakValues entry, for every number of axes and
\* also when noise rows are skipped.
C14_PeaksAreComplete ==
    ( Called("read_peak_file") /\ Returned )
    => \A k \in 1..Len(outcome.value.peaks) :
          /\ Len(outcome.value.peaks[k].axes) = outcome.value.peak_list_data.num_axis
          /\ Len(outcome.value.peaks[k].values) = 1

\* a row that the noise filter does not skip
Processed(row) == ~call.filter_noise \/ row.TYPE = <<"1">>

\* a row whose HEIGHT or whose point value on an axis of the file is zero
UndefinedDivision(row) ==
    \/ row.HEIGHT = <<"0", ".", "0">>
    \/ row.zero_axis \in 1..call.axes

\* C20: when a processed row has a HEIGHT of zero or a point value of zero
\* on an axis, read_peak_file fails and returns no PeakList.
C20_ZeroDivisorFails ==
    ( /\ Called("read_peak_file")
      /\ \E k \in 1..Len(call.rows) :
            Processed(call.rows[k]) /\ UndefinedDivision(call.rows[k]) )
    => ~Returned

C20_Witness ==
    /\ Called("read_peak_file")
    /\ call.filter_noise
    /\ \E k \in 1..Len(call.rows) :
          /\ Processed(call.rows[k])
          /\ call.rows[k].HEIGHT = <<"0", ".", "0">>
    /\ \E k \in 1..Len(call.rows) : ~Processed(call.rows[k])
    /\ ~Returned

\* the numbers of the non-blank lines read, in file order
RECURSIVE NonBlankFrom(_)
NonBlankFrom(i) ==
    IF i > LinesRead THEN <<>>
    ELSE (IF NonBlank(file_h[i]) THEN <<i>> ELSE <<>>) \o NonBlankFrom(i + 1)

\* this step takes one more line from file_h, a blank or whitespace-only one
ReadsBlankLine ==
    /\ Len(file_h') = Len(file_h) + 1
    /\ ~NonBlank(file_h'[Len(file_h')])

\* one record per non-blank line, in file order, numbered by physical line
OneRecordPerLine ==
    /\ Len(result.records) = Len(NonBlankFrom(1))
    /\ \A k \in 1..Len(result.records) :
          /\ result.records[k].line_info.line_no = NonBlankFrom(1)[k]
          /\ result.records[k].line_info.line = file_h[NonBlankFrom(1)[k]]

(***************************************************************************)
(* C21: a returned DbFile holds exactly one record per non-blank line, in  *)
(* file order, each numbered with the 1-based physical number of its line; *)
(* a blank or whitespace-only line produces no record and changes neither  *)
(* the header flag nor the schema nor the per-type counters, in header     *)
(* mode and in data mode, and is counted in the line numbers of the later  *)
(* records and of an error.                                                *)
(***************************************************************************)
C21_BlankLinesOnlyCount ==
    [][ /\ ReadsBlankLine =>
            /\ pc' = "reading" /\ raised' = NoError
            /\ records' = records
            /\ in_header' = in_header
            /\ column_names' = column_names
            /\ column_formats' = column_formats
            /\ record_count' = record_count
        /\ pc' = "returned" => OneRecordPerLine'
        /\ pc' = "raised" => raised'.line_no = Len(file_h')
      ]_vars

\* a file returned with a blank line in the header, a whitespace-only line
\* after the FORMAT line, and a row after both
C21_Witness ==
    /\ pc = "returned"
    /\ LinesRead = 5
    /\ LineIs(1, VARS)
    /\ file_h[2] = <<"\n">>
    /\ LineIs(3, FORMAT)
    /\ file_h[4] = <<" ", " ", "\n">>
    /\ NonBlank(file_h[5])
    /\ Len(result.records) = 3
    /\ result.records[3].type = VALUES
    /\ result.records[3].line_info.line_no = 5

\* the only record of the type among recs
TheOne(recs, type) == CHOOSE i \in RecordsOf(recs, type) : TRUE

\* one VARS record, then one FORMAT record, then every __VALUES__ record
WellOrdered(recs) ==
    /\ Cardinality(RecordsOf(recs, VARS)) = 1
    /\ Cardinality(RecordsOf(recs, FORMAT)) = 1
    /\ TheOne(recs, VARS) < TheOne(recs, FORMAT)
    /\ \A i \in RecordsOf(recs, VALUES) : TheOne(recs, FORMAT) < i

(***************************************************************************)
(* C22: every returned DbFile with at least one __VALUES__ record has      *)
(* exactly one VARS record and exactly one FORMAT record, the VARS record  *)
(* before the FORMAT record and every __VALUES__ record after the FORMAT   *)
(* record; and no step taken in header mode creates a __VALUES__ record.   *)
(***************************************************************************)
C22_ValuesFollowOneSchema ==
    [][ /\ (pc' = "returned" /\ RecordsOf(result'.records, VALUES) # {})
            => WellOrdered(result'.records)
        /\ in_header => RecordsOf(records', VALUES) = {}
      ]_vars

\* a file returned with a remark, the schema and two rows
C22_Witness ==
    /\ pc = "returned"
    /\ Cardinality(RecordsOf(result.records, VALUES)) = 2
    /\ RecordsOf(result.records, REMARK) # {}
    /\ WellOrdered(result.records)

====
